---- MODULE Spec2Model ----
(***************************************************************************)
(* A model of agent.py of the CedarCare business assistant: the durable    *)
(* log writers (record_customer_interest, record_feedback), the tool       *)
(* dispatcher (_dispatch_tool), the readiness check (_provider_ready), the *)
(* history adapter (_tuplize) and the conversation loop (run_agent).       *)
(*                                                                         *)
(* Text that the code inspects character by character (emails, names,      *)
(* questions, the credential) is a sequence of one-character strings; the  *)
(* one-character ellipsis U+2026 is written "...".  Text that the code     *)
(* only hands to json.loads is a TLA+ string.  A formatted result string   *)
(* (an f-string) is the sequence of its parts.                             *)
(***************************************************************************)
EXTENDS Naturals, Sequences, FiniteSets, TLC

(***************************************************************************)
(* Bounds of the model.                                                    *)
(***************************************************************************)
NTurns == 2
NCallers == 2
MaxWrites == 2
MaxCalls == 2
MaxFaults == 2
MaxTurnFaults == 1

Turns == 1..NTurns
Callers == (NTurns + 1)..(NTurns + NCallers)
Threads == Turns \cup Callers

(***************************************************************************)
(* Characters and the str methods the code uses.                           *)
(***************************************************************************)
Whitespace == {" ", "\t", "\n", "\r"}

RECURSIVE lstrip(_)
lstrip(s) == IF s # <<>> /\ Head(s) \in Whitespace THEN lstrip(Tail(s)) ELSE s

RECURSIVE rstrip(_)
rstrip(s) ==
    IF s # <<>> /\ s[Len(s)] \in Whitespace THEN rstrip(SubSeq(s, 1, Len(s) - 1)) ELSE s

strip(s) == rstrip(lstrip(s))

replace(s, old, new) == [i \in 1..Len(s) |-> IF s[i] = old THEN new ELSE s[i]]

lower(s) ==
    [i \in 1..Len(s) |-> CASE s[i] = "A" -> "a" [] s[i] = "J" -> "j" [] OTHER -> s[i]]

startswith(s, p) == Len(s) >= Len(p) /\ SubSeq(s, 1, Len(p)) = p

(***************************************************************************)
(* Python values that reach the tools: a str (its characters in v), None,  *)
(* or a number.  `x or ""` is the str itself, or "" for None.              *)
(***************************************************************************)
Str(cs) == [k |-> "str", v |-> cs]
None == [k |-> "none", v |-> <<>>]
Num == [k |-> "int", v |-> <<>>]

Truthy(x) == x.k = "int" \/ (x.k = "str" /\ x.v # <<>>)

\* s.strip() on a value that is not a str raises AttributeError.
CleanRaises(x) == Truthy(x) /\ x.k # "str"

_clean_cut(s, max_len) ==
    LET t == replace(replace(strip(s), "\r", " "), "\n", " ")
    IN  IF Len(t) > max_len THEN SubSeq(t, 1, max_len) \o <<"...">> ELSE t

_clean(s, max_len) ==
    LET t == replace(replace(strip(s), "\r", " "), "\n", " ")
    IN  IF Len(t) > max_len THEN SubSeq(t, 1, max_len - 1) \o <<"...">> ELSE t

\* _clean applied to a Python value that does not make it raise.
CleanVal(x, max_len) == _clean(IF Truthy(x) THEN x.v ELSE <<>>, max_len)

EMAIL_RE_no_dot(s) ==
    \E i \in 2..(Len(s) - 1) :
        s[i] = "@" /\ \A n \in 1..Len(s) : n # i => (s[n] # "@" /\ s[n] \notin Whitespace)

(***************************************************************************)
(* EMAIL_RE = ^[^@\s]+@[^@\s]+\.[^@\s]+$ under re.match: ($ also matches   *)
(* just before one trailing newline).                                      *)
(***************************************************************************)
EmailShape(s) ==
    \E i \in 1..Len(s) :
        /\ s[i] = "@"
        /\ i > 1
        /\ \E j \in (i + 2)..(Len(s) - 1) : s[j] = "."
        /\ \A n \in 1..Len(s) : n # i => (s[n] # "@" /\ s[n] \notin Whitespace)

EMAIL_RE(s) ==
    \/ EmailShape(s)
    \/ (s # <<>> /\ s[Len(s)] = "\n" /\ EmailShape(SubSeq(s, 1, Len(s) - 1)))

GeneralInquiry ==
    <<"G", "e", "n", "e", "r", "a", "l", " ", "i", "n", "q", "u", "i", "r", "y">>

(***************************************************************************)
(* Log destinations (module constants of agent.py) and the fallback that   *)
(* record_feedback computes from the working directory.                    *)
(***************************************************************************)
LEADS_CSV == "logs/leads.csv"
LEADS_JSONL == "logs/leads.jsonl"
FEEDBACK_JSONL == "logs/feedback.jsonl"
CwdFeedback == "cwd/logs/feedback.jsonl"
FileNames == {LEADS_CSV, LEADS_JSONL, FEEDBACK_JSONL, CwdFeedback}

VARIABLES
    files,        \* per destination: exists, data (lines the OS holds), synced (lines on stable storage)
    cwd,          \* "base" when the process runs in the repository directory, else "other"
    _WRITE_LOCK,  \* 0 when free, else the thread holding it
    call,         \* per thread: the tool call in progress
    returned,     \* the tool calls that have returned a confirmation of their write
    faults,       \* I/O faults injected so far
    crashed,      \* the process was killed
    ncalls,       \* per direct caller: tool calls made
    OPENAI_API_KEY,  \* the credential in the process environment
    turn          \* per turn of run_agent: its position and local variables

vars == <<files, cwd, _WRITE_LOCK, call, returned, faults, crashed, ncalls, OPENAI_API_KEY, turn>>

\* Path.cwd() / "logs" / "feedback.jsonl": the primary file itself when the
\* process runs in the repository directory.
fallback == IF cwd = "base" THEN FEEDBACK_JSONL ELSE CwdFeedback

(***************************************************************************)
(* Lines.  csv.writer().writerow and json.dumps(...) + "\n" each produce   *)
(* one line, handed to the OS by one flush; a line is kept as the record   *)
(* of its fields.  _utc_iso() is a stamp of the call that took it.         *)
(***************************************************************************)
Header == [kind |-> "header", cols |-> <<"timestamp", "email", "name", "message">>]
Row(e) == [kind |-> "row", ts |-> e.ts, email |-> e.email, name |-> e.name, message |-> e.message]
_utc_iso(id) == id

(***************************************************************************)
(* Arguments as _dispatch_tool receives them: a str (text in s), a dict    *)
(* (the mapping in d) or anything else (a list, a number, None).           *)
(***************************************************************************)
Dict(d) == [k |-> "dict", s |-> "", d |-> d]
Text(s) == [k |-> "str", s |-> s, d |-> <<>>]
Other == [k |-> "other", s |-> "", d |-> <<>>]
EmptyDict == Dict(<<>>)

EmailOK == <<" ", "A", "@", "b", ".", "c", "\n">>
EmailNoDot == <<"a", "@", "b">>
EmailNoAt == <<"a", "b", ".", "c">>
EmailSpace == <<"a", " ", "@", "b", ".", "c">>
EmailTwoAt == <<"a", "@", "@", "b", ".", "c">>
\* 203 characters: a well-formed address, padding, then a space past the cap of 200.
EmailLong == <<"a", "@", "b", ".">> \o [i \in 1..196 |-> "c"] \o <<" ", "x", "y">>
NameOK == <<"J", "\r", "\n", "D">>
NameBlank == <<" ", "\n">>
Question == <<"q", "\n", "?">>

LeadDicts ==
    { [email |-> Str(e), name |-> n, message |-> m] :
        e \in {EmailOK, EmailNoDot, EmailNoAt, EmailSpace, EmailTwoAt, EmailLong},
        n \in {Str(NameOK), Str(NameBlank), None},
        m \in {Str(<<"m">>)} }
    \cup { [email |-> Str(EmailOK), name |-> Str(NameOK), message |-> Str(<<>>)],
           [email |-> Num, name |-> Str(NameOK), message |-> Str(<<"m">>)],
           [email |-> Str(EmailOK), name |-> Str(NameOK), message |-> Num],
           [email |-> Str(EmailOK), name |-> Str(NameOK)],
           [email |-> Str(EmailOK), name |-> Str(NameOK), message |-> None, extra |-> None] }

FeedbackDicts ==
    { [question |-> q] : q \in {Str(Question), Str(NameBlank), Str(<<>>), None, Num} }
    \cup { [question |-> Str(Question), extra |-> None] }

(***************************************************************************)
(* json.loads on the texts the model uses; every other text fails to       *)
(* decode (JSONDecodeError).                                               *)
(***************************************************************************)
TxtLead == "{\"email\": \" A@b.c\\n\", \"name\": \"J\\r\\nD\", \"message\": \"m\"}"
TxtLeadNoName == "{\"email\": \" A@b.c\\n\", \"name\": \" \\n\", \"message\": \"m\"}"
TxtFeedback == "{\"question\": \"q\\n?\"}"
TxtFeedbackBlank == "{\"question\": \" \\n\"}"
TxtList == "[1, 2]"
TxtQuoted == "\"[1, 2]\""
TxtBad == "{email: "

json_loads(s) ==
    CASE s = TxtLead ->
            [ok |-> TRUE, val |-> Dict([email |-> Str(EmailOK), name |-> Str(NameOK), message |-> Str(<<"m">>)])]
      [] s = TxtLeadNoName ->
            [ok |-> TRUE, val |-> Dict([email |-> Str(EmailOK), name |-> Str(NameBlank), message |-> Str(<<"m">>)])]
      [] s = TxtFeedback -> [ok |-> TRUE, val |-> Dict([question |-> Str(Question)])]
      [] s = TxtFeedbackBlank -> [ok |-> TRUE, val |-> Dict([question |-> Str(NameBlank)])]
      [] s = "{}" -> [ok |-> TRUE, val |-> EmptyDict]
      [] s = TxtList -> [ok |-> TRUE, val |-> Other]
      [] s = TxtQuoted -> [ok |-> TRUE, val |-> Text(TxtList)]
      [] OTHER -> [ok |-> FALSE, val |-> Other]

(***************************************************************************)
(* A tool call in progress.  pc: "none", "wait" (blocked on the lock),     *)
(* "csv_exists", "io" (the operations in todo remain), "ret".  exc is the  *)
(* exception that left the handler ("" when it returned), e and e2 what    *)
(* the primary and the fallback write of record_feedback raised, tries the *)
(* number of writes to the fallback it started.                            *)
(***************************************************************************)
NoEntry == [ts |-> <<0, 0>>]

NoCall ==
    [pc |-> "none", id |-> <<0, 0>>, name |-> "", args |-> Other, entry |-> NoEntry,
     todo |-> <<>>, phase |-> "", e |-> <<>>, e2 |-> <<>>, exc |-> "", result |-> <<>>,
     tries |-> 0]

Ret(c, exc, result) == [c EXCEPT !.pc = "ret", !.exc = exc, !.result = result, !.todo = <<>>]

\* What `returned` keeps of a call.
View(c) == [id |-> c.id, name |-> c.name, result |-> c.result]

(***************************************************************************)
(* record_customer_interest up to `with _WRITE_LOCK` (lines 48-60): clean, *)
(* validate, stamp.  d is the keyword mapping.                             *)
(***************************************************************************)
\* The cap of the message field (line 50).
MessageCap == 800

LeadMessage(d) == IF Truthy(d.message) THEN d.message ELSE Str(GeneralInquiry)

record_customer_interest(c, d) ==
    IF CleanRaises(d.email) \/ CleanRaises(d.name) \/ CleanRaises(LeadMessage(d))
    THEN Ret(c, "AttributeError", <<"'int' object has no attribute 'strip'">>)
    ELSE LET email == lower(CleanVal(d.email, 200))
             name == CleanVal(d.name, 200)
             message == CleanVal(LeadMessage(d), MessageCap)
         IN  IF ~EMAIL_RE(email) THEN Ret(c, "", <<"Invalid email address.">>)
             ELSE IF name = <<>> THEN Ret(c, "", <<"Please provide a name.">>)
             ELSE [c EXCEPT !.pc = "wait",
                            !.entry = [ts |-> _utc_iso(c.id), email |-> email,
                                       name |-> name, message |-> message]]

record_feedback_unchecked(c, d) ==
    IF CleanRaises(d.question)
    THEN Ret(c, "AttributeError", <<"'int' object has no attribute 'strip'">>)
    ELSE [c EXCEPT !.pc = "wait",
                   !.entry = [ts |-> _utc_iso(c.id), question |-> CleanVal(d.question, 1000)]]

(***************************************************************************)
(* record_feedback up to `with _WRITE_LOCK` (lines 83-89).                 *)
(***************************************************************************)
record_feedback(c, d) ==
    IF CleanRaises(d.question)
    THEN Ret(c, "AttributeError", <<"'int' object has no attribute 'strip'">>)
    ELSE LET q == CleanVal(d.question, 1000)
         IN  IF q = <<>> THEN Ret(c, "", <<"Feedback requires a non-empty question.">>)
             ELSE [c EXCEPT !.pc = "wait", !.entry = [ts |-> _utc_iso(c.id), question |-> q]]

(***************************************************************************)
(* _dispatch_tool: normalise the arguments, call the handler with **args,  *)
(* turn what it raises into a result string.                               *)
(***************************************************************************)
Normalize(args) ==
    IF args.k = "str"
    THEN IF args.s = "" THEN EmptyDict
         ELSE LET r == json_loads(args.s) IN IF r.ok THEN r.val ELSE EmptyDict
    ELSE IF args.k # "dict" THEN EmptyDict ELSE args

Parameters(name) ==
    IF name = "record_customer_interest" THEN {"email", "name", "message"} ELSE {"question"}

Uncaught(c) == c

\* except TypeError / except Exception of _dispatch_tool, applied to a handler's outcome.
Caught(c) ==
    CASE c.pc = "ret" /\ c.exc = "TypeError" ->
            [c EXCEPT !.result = <<"Tool '", c.name, "' argument error: ">> \o c.result]
      [] c.pc = "ret" /\ c.exc # "" ->
            [c EXCEPT !.result = <<"Tool '", c.name, "' failed: ">> \o c.result]
      [] OTHER -> c

_dispatch_tool(id, name, rawargs) ==
    LET args == Normalize(rawargs)
        c == [NoCall EXCEPT !.id = id, !.name = name, !.args = args]
    IN  IF name \notin {"record_customer_interest", "record_feedback"}
        THEN Ret(c, "", <<"Unknown tool: ", name>>)
        ELSE IF args.k # "dict"
        THEN Caught(Ret(c, "TypeError", <<"argument after ** must be a mapping">>))
        ELSE IF DOMAIN args.d # Parameters(name)
        THEN Caught(Ret(c, "TypeError", <<"missing or unexpected keyword argument">>))
        ELSE IF name = "record_customer_interest"
        THEN Caught(record_customer_interest(c, args.d))
        ELSE Caught(record_feedback(c, args.d))

(***************************************************************************)
(* File operations.  open("w") creates or truncates, open("a") creates;    *)
(* write + flush hands one line to the OS; os.fsync makes everything the   *)
(* OS holds of the file durable.  _append_jsonl is mkdir + open("a"),      *)
(* write + flush, fsync.                                                   *)
(***************************************************************************)
JsonLine(e) ==
    IF "question" \in DOMAIN e
    THEN [kind |-> "json", ts |-> e.ts, question |-> e.question]
    ELSE [kind |-> "json", ts |-> e.ts, email |-> e.email, name |-> e.name, message |-> e.message]

AppendOps(f, line) ==
    << [op |-> "open_a", f |-> f, line |-> line],
       [op |-> "write", f |-> f, line |-> line],
       [op |-> "fsync", f |-> f, line |-> line] >>

HeaderOps ==
    << [op |-> "open_w", f |-> LEADS_CSV, line |-> Header],
       [op |-> "write", f |-> LEADS_CSV, line |-> Header],
       [op |-> "fsync", f |-> LEADS_CSV, line |-> Header] >>

_append_jsonl(path, obj) == AppendOps(path, JsonLine(obj))

OSError(o) == <<"OSError: ", o.op, " ", o.f>>

ApplyUnsynced(o, file) ==
    CASE o.op = "open_w" -> [exists |-> TRUE, data |-> <<>>, synced |-> 0]
      [] o.op = "open_a" -> [file EXCEPT !.exists = TRUE]
      [] o.op = "write" -> [file EXCEPT !.data = Append(file.data, o.line)]
      [] o.op = "fsync" -> file

Apply(o, file) ==
    CASE o.op = "open_w" -> [exists |-> TRUE, data |-> <<>>, synced |-> 0]
      [] o.op = "open_a" -> [file EXCEPT !.exists = TRUE]
      [] o.op = "write" -> [file EXCEPT !.data = Append(file.data, o.line)]
      [] o.op = "fsync" -> [file EXCEPT !.synced = Len(file.data)]

NoLock(t) == TRUE

\* c.tries, counting the write to the fallback that the next operation starts.
Attempts(c) ==
    IF c.phase = "fallback" /\ Head(c.todo).op = "open_a" THEN c.tries + 1 ELSE c.tries

\* `with _WRITE_LOCK:` may be entered.
LockFree(t) == _WRITE_LOCK = 0

SetCall(t, c) == call' = [call EXCEPT ![t] = c]

KeepLock(t) == UNCHANGED _WRITE_LOCK

\* Leaving `with _WRITE_LOCK:`, by return or by exception.
Release(t) == _WRITE_LOCK' = 0

(***************************************************************************)
(* Steps of a tool call from `with _WRITE_LOCK` on.                        *)
(***************************************************************************)
AcquireLock(t) ==
    /\ ~crashed
    /\ call[t].pc = "wait"
    /\ LockFree(t)
    /\ _WRITE_LOCK' = t
    /\ IF call[t].name = "record_customer_interest"
       THEN SetCall(t, [call[t] EXCEPT !.pc = "csv_exists", !.phase = "lead"])
       ELSE SetCall(t, [call[t] EXCEPT !.pc = "io", !.phase = "primary",
                                       !.todo = _append_jsonl(FEEDBACK_JSONL, call[t].entry)])
    /\ UNCHANGED <<returned, files, cwd, faults, crashed, ncalls, OPENAI_API_KEY, turn>>

\* Lines 64-75: the header only if LEADS_CSV does not exist, the row, the JSONL mirror.
CsvExists(t) ==
    /\ ~crashed
    /\ call[t].pc = "csv_exists"
    /\ SetCall(t, [call[t] EXCEPT
            !.pc = "io",
            !.todo = (IF files[LEADS_CSV].exists THEN <<>> ELSE HeaderOps)
                     \o AppendOps(LEADS_CSV, Row(call[t].entry))
                     \o _append_jsonl(LEADS_JSONL, call[t].entry)])
    /\ UNCHANGED <<returned, files, cwd, _WRITE_LOCK, faults, crashed, ncalls, OPENAI_API_KEY, turn>>

\* The next file operation succeeds.
IoStep(t) ==
    /\ ~crashed
    /\ call[t].pc = "io"
    /\ call[t].todo # <<>>
    /\ LET o == Head(call[t].todo)
       IN  files' = [files EXCEPT ![o.f] = Apply(o, files[o.f])]
    /\ SetCall(t, [call[t] EXCEPT !.todo = Tail(call[t].todo), !.tries = Attempts(call[t])])
    /\ UNCHANGED <<returned, cwd, _WRITE_LOCK, faults, crashed, ncalls, OPENAI_API_KEY, turn>>

\* Line 62-77: an exception in the with block of record_customer_interest
\* releases the lock and leaves the handler; _dispatch_tool catches it.
LeadFailure(c, err) == Caught(Ret(c, "OSError", err))

\* Lines 97-101: the primary write raised e; write to the fallback.
PrimaryFailure(c, err, path) ==
    [c EXCEPT !.phase = "fallback", !.e = err, !.todo = _append_jsonl(path, c.entry)]

FallbackRaises(c, err) == Ret([c EXCEPT !.e2 = err], "OSError", err)

\* Lines 104-105: the fallback write raised e2; return both.
FallbackFailure(c, err) ==
    Ret([c EXCEPT !.e2 = err], "",
        <<"Failed to record feedback: ">> \o c.e \o <<" | fallback error: ">> \o err)

\* The next file operation raises, while fewer than budget have.
IoFault(t, budget) ==
    /\ ~crashed
    /\ call[t].pc = "io"
    /\ call[t].todo # <<>>
    /\ faults < budget
    /\ faults' = faults + 1
    /\ LET c == call[t]
           err == OSError(Head(c.todo))
       IN  CASE c.phase = "lead" ->
                    /\ SetCall(t, LeadFailure(c, err))
                    /\ Release(t)
             [] c.phase = "primary" ->
                    /\ SetCall(t, PrimaryFailure(c, err, fallback))
                    /\ UNCHANGED _WRITE_LOCK
             [] c.phase = "fallback" ->
                    /\ SetCall(t, FallbackFailure([c EXCEPT !.tries = Attempts(c)], err))
                    /\ Release(t)
    /\ UNCHANGED <<returned, files, cwd, crashed, ncalls, OPENAI_API_KEY, turn>>

\* Every file operation of the handler succeeded: leave the with block and return.
Finish(t) ==
    /\ ~crashed
    /\ call[t].pc = "io"
    /\ call[t].todo = <<>>
    /\ Release(t)
    /\ LET c == Ret(call[t], "",
                   CASE call[t].phase = "lead" -> <<"Lead saved.">>
                     [] call[t].phase = "primary" -> <<"Feedback recorded.">>
                     [] call[t].phase = "fallback" ->
                           <<"Feedback recorded (fallback path used: ", fallback, ")">>)
       IN  SetCall(t, c) /\ returned' = returned \cup {View(c)}
    /\ UNCHANGED <<files, cwd, faults, crashed, ncalls, OPENAI_API_KEY, turn>>

ToolStep(t, budget) ==
    AcquireLock(t) \/ CsvExists(t) \/ IoStep(t) \/ IoFault(t, budget) \/ Finish(t)

(***************************************************************************)
(* The process is killed.  What was synced survives; of what was only      *)
(* flushed, everything (the kernel lives on) or nothing (power loss).      *)
(***************************************************************************)
Crash ==
    /\ ~crashed
    /\ crashed' = TRUE
    /\ \E lost \in BOOLEAN :
          files' = [f \in FileNames |->
                      IF lost THEN [files[f] EXCEPT !.data = SubSeq(files[f].data, 1, files[f].synced)]
                      ELSE files[f]]
    /\ call' = [t \in Threads |-> NoCall]
    /\ _WRITE_LOCK' = 0
    /\ UNCHANGED <<cwd, returned, faults, ncalls, OPENAI_API_KEY, turn>>

(***************************************************************************)
(* Callers of the tools outside run_agent: each calls _dispatch_tool up to *)
(* MaxWrites times, one call after the other.                              *)
(***************************************************************************)
DispatchInputs ==
    { [name |-> "record_customer_interest", args |-> Dict(d)] : d \in LeadDicts }
    \cup { [name |-> "record_feedback", args |-> Dict(d)] : d \in FeedbackDicts }
    \cup { [name |-> n, args |-> a] :
             n \in {"record_customer_interest", "record_feedback", "lookup"},
             a \in {Text(TxtLead), Text(TxtFeedback), Text(TxtList), Text(TxtQuoted),
                    Text(TxtBad), Text(""), Other} }

\* The inputs of concurrent writers: a lead and a question that pass
\* validation, and a lead that does not.
WriterInputs ==
    { [name |-> "record_customer_interest",
       args |-> Dict([email |-> Str(EmailOK), name |-> Str(NameOK), message |-> Str(<<>>)])],
      [name |-> "record_customer_interest", args |-> Text(TxtLeadNoName)],
      [name |-> "record_feedback", args |-> Text(TxtFeedback)] }

\* Messages around the cap: n characters, optionally with a line break
\* inside or a space where the cut falls, between leading and trailing
\* whitespace.
Body(n, kind) ==
    [i \in 1..n |->
        CASE kind = "break" /\ i = 2 -> "\n"
          [] kind = "return" /\ i = 2 -> "\r"
          [] kind = "space" /\ i = MessageCap - 1 -> " "
          [] OTHER -> "x"]

Messages ==
    { Str(lead \o Body(n, kind) \o trail) :
        lead \in {<<>>, <<" ">>, <<"\n">>},
        trail \in {<<>>, <<" ", "\t">>, <<"\r", "\n">>},
        n \in {0, 1, 3, MessageCap - 1, MessageCap, MessageCap + 1, MessageCap + 3},
        kind \in {"plain", "break", "return", "space"} }
    \cup {None}

CleanCalls ==
    { [name |-> "record_customer_interest",
       args |-> Dict([email |-> Str(EmailOK), name |-> Str(NameOK), message |-> m])] :
        m \in Messages }

DirectCall(t, inputs) ==
    /\ ~crashed
    /\ call[t].pc \in {"none", "ret"}
    /\ ncalls[t] < MaxWrites
    /\ ncalls' = [ncalls EXCEPT ![t] = ncalls[t] + 1]
    /\ \E inp \in inputs :
          SetCall(t, _dispatch_tool(<<t, ncalls[t] + 1>>, inp.name, inp.args))
    /\ UNCHANGED <<returned, files, cwd, _WRITE_LOCK, faults, crashed, OPENAI_API_KEY, turn>>

(***************************************************************************)
(* _provider_ready.  The credential is unset, or a str of characters.      *)
(***************************************************************************)
MinKeyLen == 40

_provider_ready_short(key) ==
    LET k == strip(IF key.set THEN key.v ELSE <<>>)
    IN  (startswith(k, <<"s", "k", "-">>) \/ startswith(k, <<"s", "k", "-", "p", "r", "o", "j", "-">>))
        /\ Len(k) >= MinKeyLen

_provider_ready(key) ==
    LET k == strip(IF key.set THEN key.v ELSE <<>>)
    IN  (startswith(k, <<"s", "k", "-">>) \/ startswith(k, <<"s", "k", "-", "p", "r", "o", "j", "-">>))
        /\ Len(k) > MinKeyLen

_SETUP_MSG ==
    "(Setup needed) No API key visible to this Python process. Set OPENAI_API_KEY and re-run."

Unset == [set |-> FALSE, v |-> <<>>]
Key(prefix, n, pad) == [set |-> TRUE, v |-> pad \o prefix \o [i \in 1..n |-> "x"] \o pad]

Credentials ==
    { Unset,
      Key(<<>>, 0, <<>>),
      Key(<<>>, 0, <<" ">>),
      Key(<<"p", "k", "-">>, MinKeyLen, <<>>),
      Key(<<"s", "k", "-">>, MinKeyLen - 3, <<>>),
      Key(<<"s", "k", "-">>, MinKeyLen - 3, <<" ">>),
      Key(<<"s", "k", "-", "p", "r", "o", "j", "-">>, MinKeyLen - 7, <<" ">>) }

(***************************************************************************)
(* _tuplize.  A history item is a (user, assistant) pair, a role-tagged    *)
(* message, or something that is neither; text is a TLA+ string, "" also   *)
(* standing for None.  The result is the pairs, or ok = FALSE when the     *)
(* code raises.                                                            *)
(***************************************************************************)
HPair(u, a) == [k |-> "pair", role |-> "", content |-> "", u |-> u, a |-> a]
HMsg(role, content) == [k |-> "msg", role |-> role, content |-> content, u |-> "", a |-> ""]
HJunk == [k |-> "junk", role |-> "", content |-> "", u |-> "", a |-> ""]

\* history=None (the default of run_agent) or a list of items.
NoHistory == [given |-> FALSE, items |-> <<>>]
Hist(items) == [given |-> TRUE, items |-> items]

RECURSIVE TuplizeRolesKeep(_, _, _)
TuplizeRolesKeep(history, pairs, last_user) ==
    IF history = <<>> THEN pairs
    ELSE LET m == Head(history)
         IN  CASE m.role = "user" -> TuplizeRolesKeep(Tail(history), pairs, m.content)
               [] m.role = "assistant" ->
                     TuplizeRolesKeep(Tail(history), Append(pairs, <<last_user, m.content>>), last_user)
               [] OTHER -> TuplizeRolesKeep(Tail(history), pairs, last_user)

\* Lines 236-244; last_user = "" also stands for None (`last_user or ""`).
RECURSIVE TuplizeRoles(_, _, _)
TuplizeRoles(history, pairs, last_user) ==
    IF history = <<>> THEN pairs
    ELSE LET m == Head(history)
         IN  CASE m.role = "user" -> TuplizeRoles(Tail(history), pairs, m.content)
               [] m.role = "assistant" ->
                     TuplizeRoles(Tail(history), Append(pairs, <<last_user, m.content>>), "")
               [] OTHER -> TuplizeRoles(Tail(history), pairs, last_user)

_tuplize(history) ==
    LET h == history.items
    IN  IF ~history.given \/ h = <<>> THEN [ok |-> TRUE, pairs |-> <<>>]
        ELSE IF h[1].k = "pair"
        THEN IF \A i \in 1..Len(h) : h[i].k = "pair"
             THEN [ok |-> TRUE, pairs |-> [i \in 1..Len(h) |-> <<h[i].u, h[i].a>>]]
             ELSE [ok |-> FALSE, pairs |-> <<>>]
        ELSE IF \A i \in 1..Len(h) : h[i].k = "msg"
        THEN [ok |-> TRUE, pairs |-> TuplizeRoles(h, <<>>, "")]
        ELSE [ok |-> FALSE, pairs |-> <<>>]

Histories ==
    { Hist(<<HMsg("user", "u1"), HMsg("assistant", "a1"), HMsg("user", "u2")>>),
      Hist(<<HJunk>>) }

\* Role-tagged histories of up to MaxHist messages: the message at position
\* i has the text MsgText[i] or no text; "system" stands for every role
\* that is neither "user" nor "assistant".
MaxHist == 4
MsgText == <<"m1", "m2", "m3", "m4", "m5">>
Roles == {"user", "assistant", "system"}

RoleTagged ==
    UNION { { [i \in 1..n |-> HMsg(r[i], IF e[i] THEN "" ELSE MsgText[i])] :
                r \in [1..n -> Roles], e \in [1..n -> BOOLEAN] } : n \in 1..MaxHist }

TuplizeInputs == {NoHistory, Hist(<<>>)} \cup { Hist(h) : h \in RoleTagged }

(***************************************************************************)
(* run_agent.  pc: "ready_check", "build_context", "first_call",           *)
(* "tool_exec" (the head of the for loop), "in_tool" (inside               *)
(* _dispatch_tool), "second_call", and the ends "setup_needed", "done",    *)
(* "error" ("raised": an exception left run_agent).  msg is the content of *)
(* the first response's message, provider is what was                      *)
(* sent to the provider, dispatched the tool-call ids handed to            *)
(* _dispatch_tool, fault the exception that reached line 301, toolFault    *)
(* whether a tool handler raised.                                          *)
(***************************************************************************)
NoFault == [kind |-> "", msg |-> ""]

\* msg before line 271 has run.
NoMsg == [set |-> FALSE, content |-> ""]

NewTurn ==
    [pc |-> "ready_check", history |-> NoHistory, pairs |-> <<>>, messages |-> <<>>,
     msg |-> NoMsg, calls |-> <<>>, i |-> 1, result |-> <<>>, provider |-> <<>>,
     dispatched |-> <<>>, fault |-> NoFault, toolFault |-> FALSE]

Propagate(tn, kind, msg) ==
    [tn EXCEPT !.pc = "raised", !.fault = [kind |-> kind, msg |-> msg]]

HandleBare(tn, kind, msg) ==
    [tn EXCEPT !.pc = "error", !.fault = [kind |-> kind, msg |-> msg], !.result = <<msg>>]

\* Lines 301-302.
Handle(tn, kind, msg) ==
    [tn EXCEPT !.pc = "error", !.fault = [kind |-> kind, msg |-> msg],
               !.result = <<"(Agent error) ", kind, ": ", msg>>]

RECURSIVE Expand(_)
Expand(pairs) ==
    IF pairs = <<>> THEN <<>>
    ELSE LET u == Head(pairs)[1]
             a == Head(pairs)[2]
         IN  (IF u # "" THEN <<[role |-> "user", content |-> u]>> ELSE <<>>)
             \o (IF a # "" THEN <<[role |-> "assistant", content |-> a]>> ELSE <<>>)
             \o Expand(Tail(pairs))

\* Lines 255-261.
Context(pairs, user_text) ==
    <<[role |-> "system", content |-> "SYSTEM_PROMPT"]>> \o Expand(pairs)
    \o <<[role |-> "user", content |-> user_text]>>

SentWithTools(tn, tools) == Append(tn.provider, [tools |-> TRUE, messages |-> tn.messages])

\* client.chat.completions.create(messages=messages[, tools=TOOL_SPEC]).
Sent(tn, tools) == Append(tn.provider, [tools |-> tools, messages |-> tn.messages])

\* What a provider call can do: raise, answer without choices, or answer
\* with a message (content, "" also standing for None, and tool calls).
Raises == [k |-> "raise", content |-> "", tool_calls |-> <<>>]
NoChoices == [k |-> "malformed", content |-> "", tool_calls |-> <<>>]
Message(content, tool_calls) == [k |-> "message", content |-> content, tool_calls |-> tool_calls]

ToolCalls ==
    { [name |-> "record_customer_interest", arguments |-> TxtLead],
      [name |-> "record_feedback", arguments |-> TxtFeedback],
      [name |-> "record_feedback", arguments |-> TxtBad],
      [name |-> "lookup", arguments |-> ""] }

ToolCallLists == UNION { [1..n -> ToolCalls] : n \in 1..MaxCalls }

FirstResponses ==
    {Raises, NoChoices, Message("We're open 9-5", <<>>), Message("", <<>>)}
    \cup { Message("", l) : l \in ToolCallLists }

\* Line 297 reads only the content of the second response: tool calls it
\* may carry are not looked at.
SecondResponses ==
    {Raises, NoChoices, Message("Saved.", <<>>), Message("", <<>>),
     Message("Saved.", <<[name |-> "record_feedback", arguments |-> TxtFeedback]>>)}

AnswerVerbatim(content) == <<content>>

\* content or "(no response)"
Answer(content) == IF content # "" THEN <<content>> ELSE <<"(no response)">>

\* Lines 280-283.
ParseArguments(arguments) ==
    LET r == json_loads(IF arguments # "" THEN arguments ELSE "{}")
    IN  IF r.ok THEN r.val ELSE EmptyDict

NextCallReversed(tn) == tn.calls[Len(tn.calls) + 1 - tn.i]

\* for tc in msg.tool_calls
NextCall(tn) == tn.calls[tn.i]

LoopDoneEarly(tn) == tn.i > 1

LoopDone(tn) == tn.i > Len(tn.calls)

SetTurn(t, tn) == turn' = [turn EXCEPT ![t] = tn]

ReadyCheck(t) ==
    /\ ~crashed
    /\ turn[t].pc = "ready_check"
    /\ IF _provider_ready(OPENAI_API_KEY)
       THEN SetTurn(t, [turn[t] EXCEPT !.pc = "build_context"])
       ELSE SetTurn(t, [turn[t] EXCEPT !.pc = "setup_needed", !.result = <<_SETUP_MSG>>])
    /\ UNCHANGED <<files, cwd, _WRITE_LOCK, call, returned, faults, crashed, ncalls, OPENAI_API_KEY>>

BuildContext(t) ==
    /\ ~crashed
    /\ turn[t].pc = "build_context"
    /\ \E history \in Histories :
          LET r == _tuplize(history)
              tn == [turn[t] EXCEPT !.history = history, !.pairs = r.pairs]
          IN  IF r.ok
              THEN SetTurn(t, [tn EXCEPT !.pc = "first_call",
                                         !.messages = Context(r.pairs, "What are your hours?")])
              ELSE SetTurn(t, Handle(tn, "AttributeError", "'int' object has no attribute 'get'"))
    /\ UNCHANGED <<files, cwd, _WRITE_LOCK, call, returned, faults, crashed, ncalls, OPENAI_API_KEY>>

FirstCall(t) ==
    /\ ~crashed
    /\ turn[t].pc = "first_call"
    /\ \E resp \in FirstResponses :
          LET tn == [turn[t] EXCEPT !.provider = Sent(turn[t], TRUE),
                                    !.msg = IF resp.k = "message"
                                            THEN [set |-> TRUE, content |-> resp.content]
                                            ELSE NoMsg]
              calls == [j \in 1..Len(resp.tool_calls) |->
                          [id |-> <<t, j>>, name |-> resp.tool_calls[j].name,
                           arguments |-> resp.tool_calls[j].arguments]]
          IN  CASE resp.k = "raise" -> SetTurn(t, Handle(tn, "APIConnectionError", "Connection error."))
                [] resp.k = "malformed" -> SetTurn(t, Handle(tn, "IndexError", "list index out of range"))
                [] resp.k = "message" /\ resp.tool_calls = <<>> ->
                      SetTurn(t, [tn EXCEPT !.pc = "done", !.result = Answer(resp.content)])
                [] OTHER ->
                      SetTurn(t, [tn EXCEPT
                          !.pc = "tool_exec", !.calls = calls, !.i = 1,
                          !.messages = Append(tn.messages, [role |-> "assistant", tool_calls |-> calls])])
    /\ UNCHANGED <<files, cwd, _WRITE_LOCK, call, returned, faults, crashed, ncalls, OPENAI_API_KEY>>

\* Lines 280-284: parse the arguments, enter _dispatch_tool.
DispatchNext(t) ==
    /\ ~crashed
    /\ turn[t].pc = "tool_exec"
    /\ LET tc == NextCall(turn[t])
       IN  /\ SetCall(t, _dispatch_tool(tc.id, tc.name, ParseArguments(tc.arguments)))
           /\ SetTurn(t, [turn[t] EXCEPT !.pc = "in_tool",
                                         !.dispatched = Append(turn[t].dispatched, tc.id)])
    /\ UNCHANGED <<returned, files, cwd, _WRITE_LOCK, faults, crashed, ncalls, OPENAI_API_KEY>>

\* Lines 284-290: _dispatch_tool returned; append the tool message.
ToolReturn(t) ==
    /\ ~crashed
    /\ turn[t].pc = "in_tool"
    /\ call[t].pc = "ret"
    /\ LET tc == NextCall(turn[t])
           tn == [turn[t] EXCEPT
                    !.messages = Append(turn[t].messages,
                        [role |-> "tool", tool_call_id |-> tc.id, name |-> tc.name,
                         content |-> call[t].result]),
                    !.i = turn[t].i + 1,
                    !.toolFault = turn[t].toolFault \/ call[t].exc # "" \/ call[t].e # <<>>]
       IN  SetTurn(t, [tn EXCEPT !.pc = IF LoopDone(tn) THEN "second_call" ELSE "tool_exec"])
    /\ call' = [call EXCEPT ![t] = NoCall]
    /\ UNCHANGED <<files, cwd, _WRITE_LOCK, returned, faults, crashed, ncalls, OPENAI_API_KEY>>

SecondCall(t) ==
    /\ ~crashed
    /\ turn[t].pc = "second_call"
    /\ \E resp \in SecondResponses :
          LET tn == [turn[t] EXCEPT !.provider = Sent(turn[t], FALSE)]
          IN  CASE resp.k = "raise" -> SetTurn(t, Handle(tn, "APIConnectionError", "Connection error."))
                [] resp.k = "malformed" -> SetTurn(t, Handle(tn, "IndexError", "list index out of range"))
                [] OTHER -> SetTurn(t, [tn EXCEPT !.pc = "done", !.result = Answer(resp.content)])
    /\ UNCHANGED <<files, cwd, _WRITE_LOCK, call, returned, faults, crashed, ncalls, OPENAI_API_KEY>>

\* _tuplize called by itself on one history.
TuplizeCall(t) ==
    /\ turn[t].pc = "ready_check"
    /\ \E history \in TuplizeInputs :
          LET r == _tuplize(history)
          IN  SetTurn(t, [turn[t] EXCEPT !.pc = IF r.ok THEN "tuplized" ELSE "raised",
                                         !.history = history, !.pairs = r.pairs])
    /\ UNCHANGED <<files, cwd, _WRITE_LOCK, call, returned, faults, crashed, ncalls, OPENAI_API_KEY>>

run_agent(t) ==
    \/ ReadyCheck(t)
    \/ BuildContext(t)
    \/ FirstCall(t)
    \/ DispatchNext(t)
    \/ ToolReturn(t)
    \/ SecondCall(t)

NoFile == [exists |-> FALSE, data |-> <<>>, synced |-> 0]

InitLogs ==
    /\ files = [f \in FileNames |-> NoFile]
    /\ cwd \in {"base", "other"}
    /\ _WRITE_LOCK = 0
    /\ call = [t \in Threads |-> NoCall]
    /\ returned = {}
    /\ faults = 0
    /\ crashed = FALSE
    /\ ncalls = [t \in Callers |-> 0]
    /\ turn = [t \in Turns |-> NewTurn]

\* The conversation loop: NTurns turns of run_agent, concurrently.
Init == InitLogs /\ OPENAI_API_KEY \in Credentials

Next ==
    \/ \E t \in Turns : run_agent(t)
    \/ \E t \in Turns : ToolStep(t, MaxTurnFaults)

Spec == Init /\ [][Next]_vars

\* The tools called without run_agent.
InitTools == InitLogs /\ OPENAI_API_KEY = Unset

\* Concurrent writers.
NextTools ==
    \/ \E t \in Callers : DirectCall(t, WriterInputs)
    \/ \E t \in Callers : ToolStep(t, MaxFaults)
    \/ Crash

SpecTools == InitTools /\ [][NextTools]_vars

\* One caller, every shape of input.
Caller1 == NTurns + 1

NextDispatch ==
    \/ DirectCall(Caller1, DispatchInputs)
    \/ ToolStep(Caller1, MaxFaults)
    \/ Crash

SpecDispatch == InitTools /\ [][NextDispatch]_vars

\* Concurrent writers that are not killed, scheduled fairly: a thread that
\* can take its next step (entering the with block once the lock is free,
\* a file operation, which succeeds or raises, the return) takes it.
NextLock ==
    \/ \E t \in Callers : DirectCall(t, WriterInputs)
    \/ \E t \in Callers : ToolStep(t, MaxFaults)

Fairness ==
    \A t \in Callers :
        /\ SF_vars(AcquireLock(t))
        /\ WF_vars(CsvExists(t) \/ IoStep(t) \/ IoFault(t, MaxFaults) \/ Finish(t))

SpecLock == InitTools /\ [][NextLock]_vars /\ Fairness

\* One lead with a message around the cap, written without faults.
NextClean ==
    \/ ncalls[Caller1] = 0 /\ DirectCall(Caller1, CleanCalls)
    \/ AcquireLock(Caller1)
    \/ CsvExists(Caller1)
    \/ IoStep(Caller1)
    \/ Finish(Caller1)

SpecClean == InitTools /\ [][NextClean]_vars

\* The history adapter alone.
NextTuplize == TuplizeCall(1)

SpecTuplize == InitTools /\ [][NextTuplize]_vars

(***************************************************************************)
(* Properties of the log writers and the dispatcher.                       *)
(***************************************************************************)
Data(f) == files[f].data

\* The lines of f that the call id wrote.
LinesOf(f, id) == {i \in 1..Len(Data(f)) : Data(f)[i].kind # "header" /\ Data(f)[i].ts = id}

\* The call id has a line within the synced part of f.
Durable(f, id) == \E i \in LinesOf(f, id) : i <= files[f].synced

NoLines(id) == \A f \in FileNames : LinesOf(f, id) = {}

LeadAcks == {r \in returned : r.result = <<"Lead saved.">>}
PrimaryAcks == {r \in returned : r.result = <<"Feedback recorded.">>}
FallbackAcks ==
    {r \in returned : r.result = <<"Feedback recorded (fallback path used: ", fallback, ")">>}

AllDone == \A t \in Callers : ncalls[t] = MaxWrites /\ call[t].pc = "ret"

\* C1: while every write succeeds, concurrent callers leave exactly one
\* whole line per acknowledged write in each destination it went to (so
\* N x M lines once N callers have each made M writes to it), and the
\* tabular store holds one header, as its first line.
C1_Theorem ==
    (faults = 0 /\ ~crashed) =>
        /\ \A r \in LeadAcks :
              /\ Cardinality(LinesOf(LEADS_CSV, r.id)) = 1
              /\ Cardinality(LinesOf(LEADS_JSONL, r.id)) = 1
        /\ \A r \in PrimaryAcks : Cardinality(LinesOf(FEEDBACK_JSONL, r.id)) = 1
        /\ Len(Data(LEADS_CSV)) > 0 =>
              /\ Data(LEADS_CSV)[1] = Header
              /\ \A i \in 2..Len(Data(LEADS_CSV)) : Data(LEADS_CSV)[i].kind = "row"
        /\ \A i \in 1..Len(Data(LEADS_JSONL)) : Data(LEADS_JSONL)[i].kind = "json"
        /\ AllDone =>
              /\ Len(Data(LEADS_CSV)) =
                    Cardinality(LeadAcks) + (IF LeadAcks = {} THEN 0 ELSE 1)
              /\ Len(Data(LEADS_JSONL)) = Cardinality(LeadAcks)
              /\ Len(Data(FEEDBACK_JSONL)) = Cardinality(PrimaryAcks)

C1_Witness ==
    /\ AllDone /\ faults = 0 /\ ~crashed
    /\ Cardinality(LeadAcks) = NCallers * MaxWrites
    /\ Len(Data(LEADS_CSV)) = NCallers * MaxWrites + 1
    /\ Len(Data(LEADS_JSONL)) = NCallers * MaxWrites

\* C2: a call that has returned "Lead saved." or a "Feedback recorded"
\* confirmation has its line in the synced part of every destination it
\* writes, before and after the process is killed.
C2_Theorem ==
    /\ \A r \in LeadAcks : Durable(LEADS_CSV, r.id) /\ Durable(LEADS_JSONL, r.id)
    /\ \A r \in PrimaryAcks : Durable(FEEDBACK_JSONL, r.id)
    /\ \A r \in FallbackAcks : Durable(fallback, r.id)

C2_Witness ==
    /\ crashed
    /\ LeadAcks # {}
    /\ FallbackAcks # {}
    /\ \E f \in FileNames : Len(Data(f)) > 0 /\ Len(Data(f)) = files[f].synced

(***************************************************************************)
(* What the claims call a well-formed email, a blank text, a call with     *)
(* text arguments: stated without the code's regular expression.           *)
(***************************************************************************)
WellFormedEmail(s) ==
    /\ Cardinality({i \in 1..Len(s) : s[i] = "@"}) = 1
    /\ \A i \in 1..Len(s) : s[i] \notin Whitespace
    /\ LET at == CHOOSE i \in 1..Len(s) : s[i] = "@"
       IN  at > 1 /\ \E j \in (at + 2)..(Len(s) - 1) : s[j] = "."

Blank(x) == x.k = "none" \/ (x.k = "str" /\ \A i \in 1..Len(x.v) : x.v[i] \in Whitespace)

IsText(x) == x.k \in {"str", "none"}

\* The email as given, without the surrounding whitespace.
Trimmed(x) == IF x.k = "str" THEN strip(x.v) ELSE <<>>

\* The email as record_customer_interest validates it.
Cleaned(x) == lower(CleanVal(x, 200))

\* A finished call of record_customer_interest with its three arguments, all text.
LeadCall(c) ==
    /\ c.pc = "ret"
    /\ c.name = "record_customer_interest"
    /\ c.args.k = "dict"
    /\ DOMAIN c.args.d = {"email", "name", "message"}
    /\ \A a \in {"email", "name", "message"} : IsText(c.args.d[a])

Rejected(c, message) == c.result = <<message>> /\ NoLines(c.id)

StoredLeadsValid ==
    \A f \in {LEADS_CSV, LEADS_JSONL} : \A i \in 1..Len(Data(f)) :
        Data(f)[i].kind # "header" =>
            WellFormedEmail(Data(f)[i].email) /\ Data(f)[i].name # <<>>

\* C7 as claimed: stored leads are valid; a call with a malformed email
\* returns "Invalid email address.", a call with a blank name returns
\* "Please provide a name.", and neither adds a line.
C7_Original ==
    /\ StoredLeadsValid
    /\ \A t \in Threads : LeadCall(call[t]) =>
          /\ ~WellFormedEmail(Trimmed(call[t].args.d.email)) =>
                Rejected(call[t], "Invalid email address.")
          /\ Blank(call[t].args.d.name) => Rejected(call[t], "Please provide a name.")

\* C7 amended: stored leads are valid; a call with text arguments whose
\* email is malformed once cleaned (trimmed, CR and LF to spaces, capped at
\* 200 characters, lowercased) returns "Invalid email address.", whatever
\* the name; one whose cleaned email is well formed and whose name is
\* blank returns "Please provide a name."; neither adds a line.
C7_Theorem ==
    /\ StoredLeadsValid
    /\ \A t \in Threads : LeadCall(call[t]) =>
          /\ ~WellFormedEmail(Cleaned(call[t].args.d.email)) =>
                Rejected(call[t], "Invalid email address.")
          /\ (WellFormedEmail(Cleaned(call[t].args.d.email)) /\ Blank(call[t].args.d.name)) =>
                Rejected(call[t], "Please provide a name.")

C7_Witness ==
    \E t \in Threads :
        /\ LeadCall(call[t])
        /\ Blank(call[t].args.d.name)
        /\ call[t].result = <<"Please provide a name.">>
        /\ Len(Data(LEADS_CSV)) = 2
        /\ Len(Data(LEADS_JSONL)) = 1

\* C8: record_feedback with an empty or whitespace-only question returns
\* the empty-feedback message and adds no line to the primary or the
\* fallback feedback store.
C8_Theorem ==
    \A t \in Threads :
        ( /\ call[t].name = "record_feedback"
          /\ call[t].args.k = "dict"
          /\ DOMAIN call[t].args.d = {"question"}
          /\ Blank(call[t].args.d.question) )
        => /\ call[t].pc = "ret"
           /\ call[t].result = <<"Feedback requires a non-empty question.">>
           /\ LinesOf(FEEDBACK_JSONL, call[t].id) = {}
           /\ LinesOf(CwdFeedback, call[t].id) = {}

C8_Witness ==
    \E t \in Threads :
        /\ call[t].name = "record_feedback"
        /\ call[t].args.k = "dict"
        /\ DOMAIN call[t].args.d = {"question"}
        /\ call[t].args.d.question = Str(NameBlank)
        /\ call[t].pc = "ret"
        /\ Len(Data(FEEDBACK_JSONL)) = 1

\* C9: in record_feedback, a failed primary write is followed by exactly
\* one write to the fallback; if that succeeds the call returns the
\* confirmation naming the fallback path, if it fails the call returns
\* the string naming both failures; no exception leaves record_feedback.
C9_Theorem ==
    \A t \in Threads : LET c == call[t] IN
        (c.name = "record_feedback" /\ c.entry # NoEntry) =>
            /\ c.tries <= 1
            /\ c.e = <<>> => c.tries = 0 /\ c.e2 = <<>>
            /\ (c.e # <<>> /\ c.pc = "ret") =>
                  /\ c.tries = 1
                  /\ c.exc = ""
                  /\ c.e2 = <<>> =>
                        /\ c.result = <<"Feedback recorded (fallback path used: ", fallback, ")">>
                        /\ LinesOf(fallback, c.id) # {}
                  /\ c.e2 # <<>> =>
                        c.result = <<"Failed to record feedback: ">> \o c.e
                                   \o <<" | fallback error: ">> \o c.e2

C9_Witness ==
    \E t \in Threads :
        /\ call[t].name = "record_feedback"
        /\ call[t].pc = "ret"
        /\ call[t].e # <<>>
        /\ call[t].e2 # <<>>
        /\ call[t].tries = 1

\* C10: _dispatch_tool always returns a result string: "Unknown tool" for
\* an unknown name, with no store changed; a string naming the tool and
\* the argument error for arguments that do not fit the handler; a string
\* naming the tool and the failure for any other exception of the handler,
\* a failed lead write included.
C10_Theorem ==
    \A t \in Threads : LET c == call[t] IN
        c.pc = "ret" =>
            /\ c.result # <<>>
            /\ \A i \in 1..Len(c.result) : c.result[i] \in STRING
            /\ c.name \notin {"record_customer_interest", "record_feedback"} =>
                  c.result = <<"Unknown tool: ", c.name>> /\ NoLines(c.id)
            /\ ( /\ c.name \in {"record_customer_interest", "record_feedback"}
                 /\ (c.args.k # "dict" \/ DOMAIN c.args.d # Parameters(c.name)) ) =>
                  /\ Len(c.result) > 3
                  /\ SubSeq(c.result, 1, 3) = <<"Tool '", c.name, "' argument error: ">>
                  /\ NoLines(c.id)
            /\ c.exc \notin {"", "TypeError"} =>
                  /\ Len(c.result) > 3
                  /\ SubSeq(c.result, 1, 3) = <<"Tool '", c.name, "' failed: ">>
            /\ (c.phase = "lead" /\ c.result # <<"Lead saved.">>) =>
                  SubSeq(c.result, 1, 3) = <<"Tool '", c.name, "' failed: ">>

C10_Witness ==
    \E t \in Threads :
        /\ call[t].pc = "ret"
        /\ call[t].phase = "lead"
        /\ call[t].exc = "OSError"
        /\ LinesOf(LEADS_CSV, call[t].id) # {}

(***************************************************************************)
(* Properties of the conversation loop.                                    *)
(***************************************************************************)
Final == {"setup_needed", "done", "error", "raised"}

\* The positions of the tool-result messages of a turn.
ToolResults(tn) == {n \in 1..Len(tn.messages) : tn.messages[n].role = "tool"}

\* C3: within a turn the requested tool calls enter _dispatch_tool one at
\* a time, in the order of the provider's response, and the second
\* provider call is made only when each of them has a result string.
C3_Theorem ==
    \A t \in Turns : LET tn == turn[t] IN
        /\ Len(tn.dispatched) <= Len(tn.calls)
        /\ \A j \in 1..Len(tn.dispatched) : tn.dispatched[j] = tn.calls[j].id
        /\ Len(tn.dispatched) - Cardinality(ToolResults(tn)) \in {0, 1}
        /\ (tn.pc = "second_call" \/ Len(tn.provider) = 2) =>
              /\ Len(tn.dispatched) = Len(tn.calls)
              /\ Cardinality(ToolResults(tn)) = Len(tn.calls)
              /\ \A n \in ToolResults(tn) : tn.messages[n].content # <<>>

C3_Witness ==
    \E t \in Turns :
        /\ Len(turn[t].provider) = 2
        /\ Len(turn[t].calls) = 2
        /\ turn[t].dispatched = <<<<t, 1>>, <<t, 2>>>>
        /\ turn[t].calls[1].name # turn[t].calls[2].name

\* C4: when the first response requests k >= 1 tool calls, the second
\* provider call is always made, and what it sends is the first request's
\* messages, the assistant record of the k requests, then exactly k tool
\* results in request order, each with its call id and tool name,
\* whatever the outcome of each call.
C4_Theorem ==
    \A t \in Turns : LET tn == turn[t] IN
        /\ (tn.pc \in Final /\ tn.calls # <<>>) => Len(tn.provider) = 2
        /\ Len(tn.provider) = 2 =>
              LET sent == tn.provider[2].messages
                  base == Len(tn.provider[1].messages)
                  k == Len(tn.calls)
              IN  /\ k >= 1
                  /\ Len(sent) = base + 1 + k
                  /\ SubSeq(sent, 1, base) = tn.provider[1].messages
                  /\ sent[base + 1] = [role |-> "assistant", tool_calls |-> tn.calls]
                  /\ \A j \in 1..k :
                        /\ sent[base + 1 + j].role = "tool"
                        /\ sent[base + 1 + j].tool_call_id = tn.calls[j].id
                        /\ sent[base + 1 + j].name = tn.calls[j].name
                        /\ sent[base + 1 + j].content # <<>>

C4_Witness ==
    \E t \in Turns : LET tn == turn[t] IN
        /\ Len(tn.provider) = 2
        /\ Len(tn.calls) = 2
        /\ LET sent == tn.provider[2].messages
           IN  /\ sent[Len(sent) - 1].content[1] = "Tool '"
               /\ sent[Len(sent)].content = <<"Lead saved.">>

\* C5 as claimed: a turn in which anything faulted (context building, a
\* provider call, response parsing, tool execution) ends in ERROR with the
\* error string naming the fault kind and message.
C5_Original ==
    \A t \in Turns : LET tn == turn[t] IN
        /\ tn.pc # "raised"
        /\ (tn.pc \in Final /\ (tn.fault.kind # "" \/ tn.toolFault)) =>
              /\ tn.pc = "error"
              /\ tn.result = <<"(Agent error) ", tn.fault.kind, ": ", tn.fault.msg>>

\* C5 amended: run_agent never raises; a fault in context building, in
\* either provider call or in response parsing ends the turn in ERROR with
\* the string naming the fault kind and message, and only such a fault
\* does; a fault in a tool handler becomes that call's result and the turn
\* goes on to the second provider call.
C5_Theorem ==
    \A t \in Turns : LET tn == turn[t] IN
        /\ tn.pc # "raised"
        /\ tn.pc \in Final => tn.result # <<>>
        /\ tn.fault.kind # "" =>
              /\ tn.pc = "error"
              /\ tn.result = <<"(Agent error) ", tn.fault.kind, ": ", tn.fault.msg>>
        /\ tn.pc = "error" => tn.fault.kind # ""
        /\ (tn.toolFault /\ tn.fault.kind = "" /\ tn.pc \in Final) =>
              tn.pc = "done" /\ Len(tn.provider) = 2

C5_Witness ==
    \E t \in Turns :
        /\ turn[t].pc = "error"
        /\ turn[t].toolFault
        /\ Len(turn[t].provider) = 2
        /\ turn[t].fault.kind = "IndexError"

\* The credential as the code reads it (surrounding whitespace removed) is
\* absent, empty, without an accepted prefix, or of at most 40 characters.
Unusable(key) ==
    LET k == IF key.set THEN strip(key.v) ELSE <<>>
    IN  \/ ~key.set
        \/ k = <<>>
        \/ (Len(k) < 3 \/ SubSeq(k, 1, 3) # <<"s", "k", "-">>)
        \/ Len(k) <= 40

\* C6: with an unusable credential every turn returns the setup-needed
\* message at once: no provider call, no tool dispatched, no store changed.
C6_Theorem ==
    Unusable(OPENAI_API_KEY) =>
        /\ files = [f \in FileNames |-> NoFile]
        /\ \A t \in Turns :
              /\ turn[t].pc \in {"ready_check", "setup_needed"}
              /\ turn[t].pc = "setup_needed" => turn[t].result = <<_SETUP_MSG>>
              /\ turn[t].provider = <<>>
              /\ turn[t].dispatched = <<>>
              /\ call[t] = NoCall

C6_Witness ==
    /\ OPENAI_API_KEY.set
    /\ Len(strip(OPENAI_API_KEY.v)) = 40
    /\ startswith(OPENAI_API_KEY.v, <<"s", "k", "-">>)
    /\ \A t \in Turns : turn[t].pc = "setup_needed"

\* The steps of the state machine of a turn.
TurnSteps ==
    { <<"ready_check", "setup_needed">>, <<"ready_check", "build_context">>,
      <<"build_context", "first_call">>, <<"build_context", "error">>,
      <<"first_call", "done">>, <<"first_call", "error">>, <<"first_call", "tool_exec">>,
      <<"tool_exec", "in_tool">>, <<"in_tool", "tool_exec">>, <<"in_tool", "second_call">>,
      <<"second_call", "done">>, <<"second_call", "error">> }

TurnShape(tn) ==
    /\ Len(tn.provider) <= 2
    /\ tn.pc \in {"ready_check", "build_context", "first_call", "setup_needed"} =>
          tn.provider = <<>> /\ tn.dispatched = <<>>
    /\ tn.pc \in {"tool_exec", "in_tool", "second_call"} =>
          Len(tn.provider) = 1 /\ tn.calls # <<>>
    /\ Len(tn.provider) >= 1 => tn.provider[1].tools
    /\ Len(tn.provider) = 2 =>
          /\ ~tn.provider[2].tools
          /\ tn.calls # <<>>
          /\ tn.pc \in {"done", "error"}
          /\ Len(tn.dispatched) = Len(tn.calls)
    /\ tn.pc = "done" => Len(tn.provider) = (IF tn.calls = <<>> THEN 1 ELSE 2)

TurnStep(a, b) ==
    a # b =>
        /\ <<a.pc, b.pc>> \in TurnSteps
        /\ Len(b.provider) = Len(a.provider) + (IF a.pc \in {"first_call", "second_call"} THEN 1 ELSE 0)
        /\ SubSeq(b.provider, 1, Len(a.provider)) = a.provider
        /\ Len(b.dispatched) = Len(a.dispatched) + (IF a.pc = "tool_exec" THEN 1 ELSE 0)
        /\ a.pc # "first_call" => b.calls = a.calls

\* C11: every turn moves only along READY_CHECK -> BUILD_CONTEXT ->
\* FIRST_CALL -> (DONE | TOOL_EXECUTION -> SECOND_CALL -> DONE) | ERROR (or
\* leaves READY_CHECK with the setup message); each provider state makes
\* exactly one call, so there are at most two and none is repeated; the
\* first carries the tool specs, the second does not and is made only after
\* a first response with tool calls; once the second call is made the turn
\* is over and nothing more is dispatched.
C11_Theorem ==
    /\ [](\A t \in Turns : TurnShape(turn[t]))
    /\ [][\A t \in Turns : TurnStep(turn[t], turn'[t]) /\ TurnShape(turn'[t])]_vars

C11_Witness ==
    \E t \in Turns : LET tn == turn[t] IN
        /\ tn.pc = "done"
        /\ Len(tn.provider) = 2
        /\ ~tn.provider[2].tools
        /\ Len(tn.dispatched) = 2
        /\ tn.result = <<"Saved.">>

\* The lines that the tool calls of turn t wrote.
TurnLines(t) == UNION { LinesOf(f, <<t, j>>) : f \in FileNames, j \in 1..(MaxCalls + 1) }

\* The turn received a first response without tool calls.
DirectAnswer(tn) == tn.msg.set /\ tn.calls = <<>>

\* C12: a turn whose first response holds no tool calls is DONE at once:
\* its result is that response's text, or "(no response)" when the text is
\* empty; it has made one provider call, dispatched no tool and written no
\* line; and the step that receives the response changes no log store.
C12_Theorem ==
    /\ [](\A t \in Turns : DirectAnswer(turn[t]) =>
            /\ turn[t].pc = "done"
            /\ turn[t].result =
                  (IF turn[t].msg.content = "" THEN <<"(no response)">> ELSE <<turn[t].msg.content>>)
            /\ Len(turn[t].provider) = 1
            /\ turn[t].dispatched = <<>>
            /\ call[t] = NoCall
            /\ TurnLines(t) = {})
    /\ [][\A t \in Turns :
             (turn[t].pc = "first_call" /\ DirectAnswer(turn'[t])) =>
                 files' = files /\ call' = call /\ _WRITE_LOCK' = _WRITE_LOCK]_vars

C12_Witness ==
    \E t \in Turns :
        /\ DirectAnswer(turn[t])
        /\ turn[t].result = <<"(no response)">>
        /\ Len(Data(LEADS_CSV)) = 2

(***************************************************************************)
(* Properties of the stores across calls.                                  *)
(***************************************************************************)
\* No tool call is in progress.
Quiescent == \A t \in Threads : call[t].pc \in {"none", "ret"}

Lead(line) == [ts |-> line.ts, email |-> line.email, name |-> line.name, message |-> line.message]

IsRecord(line) == line.kind # "header"

\* The leads a store holds, in order.
Leads(f) ==
    LET recs == SelectSeq(Data(f), IsRecord)
    IN  [i \in 1..Len(recs) |-> Lead(recs[i])]

\* C13 as claimed: whenever no call is in progress (and the process was
\* not killed), leads.jsonl holds the same leads in the same order as the
\* data rows of leads.csv, and every call that returned "Lead saved." has
\* exactly one row and one line.
C13_Original ==
    (Quiescent /\ ~crashed) =>
        /\ Leads(LEADS_JSONL) = Leads(LEADS_CSV)
        /\ \A r \in LeadAcks :
              /\ Cardinality(LinesOf(LEADS_CSV, r.id)) = 1
              /\ Cardinality(LinesOf(LEADS_JSONL, r.id)) = 1

\* What does hold of the two lead stores, faults and kills included: every
\* lead of leads.jsonl is a data row of leads.csv, and an acknowledged
\* call has exactly one row and one line.
MirrorWithinRows ==
    /\ \A i \in 1..Len(Leads(LEADS_JSONL)) :
          \E j \in 1..Len(Leads(LEADS_CSV)) : Leads(LEADS_CSV)[j] = Leads(LEADS_JSONL)[i]
    /\ \A r \in LeadAcks :
          /\ Cardinality(LinesOf(LEADS_CSV, r.id)) = 1
          /\ Cardinality(LinesOf(LEADS_JSONL, r.id)) = 1

IsPrefix(a, b) == Len(a) <= Len(b) /\ SubSeq(b, 1, Len(a)) = a

\* No step of a tool call removes or rewrites a line of a store.
AppendOnly == \A f \in FileNames : IsPrefix(files[f].data, files'[f].data)

\* leads.csv, when it holds a data row, starts with the header and holds
\* no other header.
HeaderOnceFirst ==
    (\E i \in 1..Len(Data(LEADS_CSV)) : Data(LEADS_CSV)[i].kind = "row") =>
        /\ Data(LEADS_CSV)[1] = Header
        /\ \A i \in 2..Len(Data(LEADS_CSV)) : Data(LEADS_CSV)[i].kind = "row"

\* C14 as claimed: every step of the running process leaves the earlier
\* contents of each store a prefix of the later contents, and in every
\* state leads.csv with a data row has the header as its first line and
\* no other header, calls whose writes fail included.
C14_Original ==
    /\ [](~crashed => HeaderOnceFirst)
    /\ [][~crashed' => AppendOnly]_vars

\* The first half of C14 alone, which holds: open("w") is reached only
\* when leads.csv does not exist, under the lock.
StoresAppendOnly == [][~crashed' => AppendOnly]_vars

(***************************************************************************)
(* A turn that ends in ERROR.                                              *)
(***************************************************************************)
ProviderFailed(tn) == tn.pc = "error" /\ tn.fault.kind = "APIConnectionError"

\* C15 as claimed: a turn ended by a provider failure has the single error
\* string as its result and none of its tool calls has a line in any
\* store.
C15_Original ==
    \A t \in Turns : ProviderFailed(turn[t]) =>
        /\ turn[t].result = <<"(Agent error) ", turn[t].fault.kind, ": ", turn[t].fault.msg>>
        /\ TurnLines(t) = {}

\* C15 amended: a provider failure at either call ends the turn with the
\* single error string, and the failing step changes no store; a failure
\* at the first call leaves the turn with nothing dispatched and no line
\* written; at the second call every tool call of the turn has already run
\* and the lines it appended stay in the stores.
C15_Theorem ==
    /\ [](\A t \in Turns : LET tn == turn[t] IN
            /\ tn.fault.kind # "" => tn.pc = "error"
            /\ tn.pc = "error" =>
                  /\ tn.result = <<"(Agent error) ", tn.fault.kind, ": ", tn.fault.msg>>
                  /\ call[t] = NoCall
                  /\ Len(tn.provider) <= 1 => tn.dispatched = <<>> /\ TurnLines(t) = {}
                  /\ Len(tn.provider) = 2 =>
                        /\ Len(tn.dispatched) = Len(tn.calls)
                        /\ \A j \in 1..Len(tn.calls) :
                              tn.messages[Len(tn.messages) - Len(tn.calls) + j].content
                                  = <<"Lead saved.">>
                              => /\ LinesOf(LEADS_CSV, tn.calls[j].id) # {}
                                 /\ LinesOf(LEADS_JSONL, tn.calls[j].id) # {})
    /\ [][\A t \in Turns :
             (turn[t].pc # "error" /\ turn'[t].pc = "error") => files' = files]_vars

C15_Witness ==
    \E t \in Turns :
        /\ ProviderFailed(turn[t])
        /\ Len(turn[t].provider) = 2
        /\ LinesOf(LEADS_CSV, <<t, 1>>) # {}
        /\ LinesOf(FEEDBACK_JSONL, <<t, 2>>) # {}

(***************************************************************************)
(* The history adapter, described by positions instead of by the loop.     *)
(***************************************************************************)
Max(S) == CHOOSE x \in S : \A y \in S : y <= x

\* The positions of the assistant messages of h, ascending.
RECURSIVE Ascending(_)
Ascending(S) ==
    IF S = {} THEN <<>> ELSE Ascending(S \ {Max(S)}) \o <<Max(S)>>

AssistantAt(h) == Ascending({i \in 1..Len(h) : h[i].role = "assistant"})

\* The pending unmatched user message when the message at i is read: the
\* last user or assistant message before i, if it is a user message; else 0.
PendingUser(h, i) ==
    LET before == {j \in 1..(i - 1) : h[j].role \in {"user", "assistant"}}
    IN  IF before # {} /\ h[Max(before)].role = "user" THEN Max(before) ELSE 0

\* The user messages that some pair was built from.
Matched(h) == {PendingUser(h, i) : i \in {j \in 1..Len(h) : h[j].role = "assistant"}} \ {0}

\* C16: for a role-tagged history h, _tuplize returns one pair per
\* assistant message, in order; the pair of an assistant message that
\* follows a pending unmatched user message is (that user's text, the
\* assistant's text), and the pending user is then cleared, so the pair
\* of an assistant message with no pending user has "" as its user text;
\* the text of a user message that was replaced by a later user message,
\* or that no assistant message follows, is in no pair; an empty or
\* absent history gives the empty sequence; the history is left as given.
C16_Theorem ==
    LET tn == turn[1]
        h == tn.history.items
        at == AssistantAt(h)
    IN  tn.pc # "ready_check" =>
            /\ tn.pc = "tuplized"
            /\ tn.history \in TuplizeInputs
            /\ Len(tn.pairs) = Len(at)
            /\ \A k \in 1..Len(at) :
                  /\ tn.pairs[k][2] = h[at[k]].content
                  /\ tn.pairs[k][1] =
                        (IF PendingUser(h, at[k]) # 0 THEN h[PendingUser(h, at[k])].content ELSE "")
            /\ \A j \in 1..Len(h) :
                  (h[j].role = "user" /\ h[j].content # "" /\ j \notin Matched(h)) =>
                      \A k \in 1..Len(tn.pairs) :
                          tn.pairs[k][1] # h[j].content /\ tn.pairs[k][2] # h[j].content
            /\ (~tn.history.given \/ h = <<>>) => tn.pairs = <<>>

C16_Witness ==
    /\ turn[1].pc = "tuplized"
    /\ Len(turn[1].history.items) = 4
    /\ turn[1].history.items[1].role = "user"
    /\ turn[1].history.items[4].role = "user"
    /\ turn[1].pairs = << <<"m2", "m3">> >>

(***************************************************************************)
(* Truncation.  What a text is once cleaned, said by positions: the part   *)
(* from its first to its last character that is not whitespace, with each  *)
(* carriage return and line feed replaced by a space.                      *)
(***************************************************************************)
\* The number of whitespace characters s starts with, and ends with.
Leading(s) == Cardinality({i \in 1..Len(s) : \A j \in 1..i : s[j] \in Whitespace})
Trailing(s) == Cardinality({i \in 1..Len(s) : \A j \in i..Len(s) : s[j] \in Whitespace})

Inner(s) == SubSeq(s, Leading(s) + 1, Len(s) - Trailing(s))

Collapsed(s) == [i \in 1..Len(s) |-> IF s[i] \in {"\r", "\n"} THEN " " ELSE s[i]]

\* A call of record_customer_interest that passed validation, the message
\* it was given and the message it stores.
Storing(c) == c.name = "record_customer_interest" /\ c.entry # NoEntry
Given(c) == c.args.d.message
Stored(c) == c.entry.message

Truncated(c, text) ==
    /\ Len(Stored(c)) = 800
    /\ Stored(c)[800] = "..."
    /\ SubSeq(Stored(c), 1, 799) = SubSeq(text, 1, 799)

Idempotent(c) == _clean(Stored(c), 800) = Stored(c)

\* The rows and lines the call wrote carry the stored message.
WrittenAsStored(c) ==
    \A f \in {LEADS_CSV, LEADS_JSONL} : \A i \in LinesOf(f, c.id) :
        Data(f)[i].message = Stored(c)

\* C17 as claimed: a message whose cleaned length exceeds 800 is stored
\* with length 800 and the ellipsis last; a message of length at most 800
\* is stored as given apart from CR and LF becoming spaces; cleaning the
\* stored value again changes nothing.
C17_Original ==
    \A t \in Threads : LET c == call[t] IN
        (Storing(c) /\ Truthy(Given(c))) =>
            /\ Len(Collapsed(Inner(Given(c).v))) > 800 => Truncated(c, Collapsed(Inner(Given(c).v)))
            /\ Len(Given(c).v) <= 800 => Stored(c) = Collapsed(Given(c).v)
            /\ Idempotent(c)

\* C17 amended: the text to store is the message without its leading and
\* trailing whitespace and with each CR and LF inside replaced by a
\* space ("General inquiry" when no message is given).  If that text is
\* longer than 800 characters, its first 799 characters and the ellipsis
\* are stored (length 800); otherwise it is stored whole, at exactly 800
\* too.  Cleaning the stored value again changes nothing.
C17_Theorem ==
    \A t \in Threads : LET c == call[t] IN
        Storing(c) =>
            LET text == IF Truthy(Given(c)) THEN Collapsed(Inner(Given(c).v)) ELSE GeneralInquiry
            IN  /\ Len(text) > 800 => Truncated(c, text)
                /\ Len(text) <= 800 => Stored(c) = text
                /\ Idempotent(c)
                /\ WrittenAsStored(c)

C17_Witness ==
    \E t \in Threads : LET c == call[t] IN
        /\ Storing(c)
        /\ c.pc = "ret"
        /\ Len(Given(c).v) = 805
        /\ Len(Stored(c)) = 800
        /\ Stored(c)[2] = " "
        /\ Stored(c)[800] = "..."
        /\ Data(LEADS_JSONL)[1].message = Stored(c)

(***************************************************************************)
(* The write lock.                                                         *)
(***************************************************************************)
InWith(c) == c.pc \in {"csv_exists", "io"}

\* The lock is held exactly by the thread inside a with block.
LockDiscipline ==
    /\ \A t \in Threads : InWith(call[t]) <=> _WRITE_LOCK = t
    /\ _WRITE_LOCK # 0 => _WRITE_LOCK \in Threads

\* Whenever a call is in progress some thread can take a step.
NoDeadlock ==
    (\E t \in Threads : call[t].pc \in {"wait", "csv_exists", "io"}) =>
        \E u \in Threads : ENABLED (AcquireLock(u) \/ CsvExists(u) \/ IoStep(u) \/ Finish(u))

\* C18: the lock is held only by a thread inside a with block, so it is
\* free again whenever a call has returned, whether its write succeeded,
\* failed or fell back; while a call is in progress some thread can step;
\* and under fair scheduling a call that waits for the lock acquires it
\* and then returns a result string.
C18_Theorem ==
    /\ [](LockDiscipline /\ NoDeadlock)
    /\ \A t \in Callers : (call[t].pc = "wait") ~> (_WRITE_LOCK = t)
    /\ \A t \in Callers :
          (call[t].pc = "wait") ~> (call[t].pc = "ret" /\ call[t].result # <<>> /\ _WRITE_LOCK # t)

C18_Witness ==
    /\ _WRITE_LOCK = 0
    /\ \A t \in Callers : call[t].pc = "ret" /\ call[t].entry # NoEntry
    /\ \E t \in Callers : call[t].phase = "lead" /\ call[t].exc = "OSError"
    /\ \E t \in Callers : call[t].phase = "fallback"

(***************************************************************************)
(* Feedback entries across the primary and the fallback store.             *)
(***************************************************************************)
FeedbackLines(id) ==
    Cardinality(LinesOf(FEEDBACK_JSONL, id)) + Cardinality(LinesOf(CwdFeedback, id))

\* C19 as claimed: a call of record_feedback has at most one line in the
\* primary and the fallback feedback store taken together.
C19_Original ==
    \A t \in Threads :
        call[t].name = "record_feedback" => FeedbackLines(call[t].id) <= 1

\* What does hold: at most one line per write attempted, so at most two,
\* and two only after the primary write raised.
FeedbackAtMostTwice ==
    \A t \in Threads :
        call[t].name = "record_feedback" =>
            /\ FeedbackLines(call[t].id) <= 1 + call[t].tries
            /\ FeedbackLines(call[t].id) = 2 => call[t].e # <<>>

====
